---- MODULE Spec2Model ----
(***************************************************************************)
(* A model of src/simple-markdown.jsx: the rule-driven parser built by     *)
(* parserFor, the default rule table, the list rule's item segmentation    *)
(* and the output walker built by outputFor.                               *)
(*                                                                         *)
(* Strings are sequences of one-character strings.  Regular expressions    *)
(* are kept as syntax trees that transliterate the literals of the source  *)
(* and are run by one backtracking matcher, so that what a rule matches    *)
(* and captures is computed, never assumed.                                *)
(***************************************************************************)
EXTENDS Integers, Sequences, FiniteSets, TLC

(***************************************************************************)
(* Regular expression syntax trees.                                        *)
(***************************************************************************)
NL == "\n"
SP == " "
\* the grave accent, which a string literal of this language cannot hold
BackTick == "<grave>"
Digits == {"0", "1", "2", "3", "4", "5", "6", "7", "8", "9"}
\* \w, over the letters the inputs are written with
WordChars == {"a", "b", "c", "x", "_"} \cup Digits
WhiteSpace == {SP, NL}

Chr(c) == [op |-> "set", neg |-> FALSE, cs |-> {c}]
OneOf(cs) == [op |-> "set", neg |-> FALSE, cs |-> cs]
NoneOf(cs) == [op |-> "set", neg |-> TRUE, cs |-> cs]
AnyChar == NoneOf({})
NotNL == NoneOf({NL})
Cat(parts) == [op |-> "cat", parts |-> parts]
Alt(parts) == [op |-> "alt", parts |-> parts]
Quant(r, min, bounded, max, greedy, grps) ==
    [op |-> "rep", r |-> r, min |-> min, bounded |-> bounded, max |-> max,
     greedy |-> greedy, grps |-> grps]
Star(r) == Quant(r, 0, FALSE, 0, TRUE, {})
Plus(r) == Quant(r, 1, FALSE, 0, TRUE, {})
Opt(r) == Quant(r, 0, TRUE, 1, TRUE, {})
LazyStar(r) == Quant(r, 0, FALSE, 0, FALSE, {})
LazyPlus(r) == Quant(r, 1, FALSE, 0, FALSE, {})
AtLeast(r, n) == Quant(r, n, FALSE, 0, TRUE, {})
Between(r, m, n) == Quant(r, m, TRUE, n, TRUE, {})
AtLeastG(r, n, grps) == Quant(r, n, FALSE, 0, TRUE, grps)
Grp(n, r) == [op |-> "grp", n |-> n, r |-> r]
Ref(n) == [op |-> "ref", n |-> n]
Ahead(r) == [op |-> "look", neg |-> FALSE, r |-> r]
NotAhead(r) == [op |-> "look", neg |-> TRUE, r |-> r]
Bol == [op |-> "bol"]
Eol == [op |-> "eol"]
WordBoundary == [op |-> "wb"]

(***************************************************************************)
(* The matcher.  Match(re, s, p, c, ml) is the sequence of all ways re can *)
(* match s from offset p with captures c, in the order a backtracking      *)
(* engine tries them; the head is the match the engine reports.  ml is the *)
(* m flag.  A capture is <<start, end>> or <<>> when the group is unset.   *)
(***************************************************************************)
Undef == <<>>
NoCaps == <<Undef, Undef, Undef>>
MatchState(p, c) == [pos |-> p, caps |-> c]

SubStr(s, from, to) == [k \in 1..(to - from) |-> s[from + k]]

StartsWithAt(s, p, t) ==
    /\ p + Len(t) <= Len(s)
    /\ \A k \in 1..Len(t) : s[p + k] = t[k]

CapText(s, c, n) == IF c[n] = Undef THEN <<>> ELSE SubStr(s, c[n][1], c[n][2])

ResetCaps(c, grps) == [n \in DOMAIN c |-> IF n \in grps THEN Undef ELSE c[n]]

IsWordAt(s, k) == k >= 1 /\ k <= Len(s) /\ s[k] \in WordChars

\* the ways a group matched, with the group's capture set to what it matched
CloseGroup(rs, n, p) ==
    [k \in 1..Len(rs) |->
        MatchState(rs[k].pos, [rs[k].caps EXCEPT ![n] = <<p, rs[k].pos>>])]

\* a backreference: the text t of the group, at p
MatchText(t, s, p, c) ==
    IF StartsWithAt(s, p, t) THEN <<MatchState(p + Len(t), c)>> ELSE <<>>

\* the ways of a quantifier, given the ways `more` that make another round
\* and the way `stop` that makes none
Rounds(greedy, more, stop) == IF greedy THEN more \o stop ELSE stop \o more

RECURSIVE Match(_, _, _, _, _)
RECURSIVE MatchCat(_, _, _, _, _, _)
RECURSIVE MatchCatOver(_, _, _, _, _, _)
RECURSIVE MatchAlt(_, _, _, _, _, _)
RECURSIVE MatchRep(_, _, _, _, _, _)
RECURSIVE MatchRepOver(_, _, _, _, _, _, _)

Match(re, s, p, c, ml) ==
    CASE re.op = "set" ->
            IF p < Len(s) /\ ((s[p + 1] \in re.cs) # re.neg)
            THEN <<MatchState(p + 1, c)>> ELSE <<>>
      [] re.op = "cat" -> MatchCat(re.parts, 1, s, p, c, ml)
      [] re.op = "alt" -> MatchAlt(re.parts, 1, s, p, c, ml)
      [] re.op = "rep" -> MatchRep(re, 0, s, p, c, ml)
      [] re.op = "grp" -> CloseGroup(Match(re.r, s, p, c, ml), re.n, p)
      [] re.op = "ref" -> MatchText(CapText(s, c, re.n), s, p, c)
      [] re.op = "look" ->
            IF (Match(re.r, s, p, c, ml) # <<>>) # re.neg
            THEN <<MatchState(p, c)>> ELSE <<>>
      [] re.op = "bol" ->
            IF p = 0 \/ (ml /\ s[p] = NL)
            THEN <<MatchState(p, c)>> ELSE <<>>
      [] re.op = "eol" ->
            IF p = Len(s) \/ (ml /\ s[p + 1] = NL)
            THEN <<MatchState(p, c)>> ELSE <<>>
      [] re.op = "wb" ->
            IF IsWordAt(s, p) # IsWordAt(s, p + 1)
            THEN <<MatchState(p, c)>> ELSE <<>>

MatchCat(parts, k, s, p, c, ml) ==
    IF k > Len(parts) THEN <<MatchState(p, c)>>
    ELSE MatchCatOver(Match(parts[k], s, p, c, ml), 1, parts, k, s, ml)

MatchCatOver(rs, j, parts, k, s, ml) ==
    IF j > Len(rs) THEN <<>>
    ELSE MatchCat(parts, k + 1, s, rs[j].pos, rs[j].caps, ml)
         \o MatchCatOver(rs, j + 1, parts, k, s, ml)

MatchAlt(parts, k, s, p, c, ml) ==
    IF k > Len(parts) THEN <<>>
    ELSE Match(parts[k], s, p, c, ml) \o MatchAlt(parts, k + 1, s, p, c, ml)

MatchRep(re, count, s, p, c, ml) ==
    Rounds(re.greedy,
           IF re.bounded /\ count >= re.max THEN <<>>
           ELSE MatchRepOver(Match(re.r, s, p, ResetCaps(c, re.grps), ml),
                             1, re, count, s, p, ml),
           IF count >= re.min THEN <<MatchState(p, c)>> ELSE <<>>)

MatchRepOver(rs, j, re, count, s, p, ml) ==
    IF j > Len(rs) THEN <<>>
    ELSE (IF rs[j].pos > p \/ count < re.min
          THEN MatchRep(re, count + 1, s, rs[j].pos, rs[j].caps, ml)
          ELSE <<>>)
         \o MatchRepOver(rs, j + 1, re, count, s, p, ml)

(***************************************************************************)
(* RegExp.prototype.exec, String.prototype.match with a g regex, and       *)
(* String.prototype.replace with the empty replacement.                    *)
(***************************************************************************)
Null == [matched |-> FALSE]

\* the first result that is a match, trying the offsets from `from` on;
\* rs are the ways the regex matches at `from`
RECURSIVE ExecFrom(_, _, _, _)
RECURSIVE ExecAt(_, _, _, _, _)
ExecFrom(re, s, from, ml) ==
    IF from > Len(s) THEN Null
    ELSE ExecAt(Match(re, s, from, NoCaps, ml), re, s, from, ml)

ExecAt(rs, re, s, from, ml) ==
    IF rs = <<>> THEN ExecFrom(re, s, from + 1, ml)
    ELSE [matched |-> TRUE, index |-> from, end |-> rs[1].pos, caps |-> rs[1].caps]

Exec(re, s, ml) == ExecFrom(re, s, 0, ml)

Capture0(s, m) == SubStr(s, m.index, m.end)
Capture(s, m, n) == CapText(s, m.caps, n)

\* where the search goes on after the match m
NextIndex(m) == IF m.end = m.index THEN m.end + 1 ELSE m.end

\* str.match(re) for a g regex: every match, m being the first from `from` on
RECURSIVE MatchAllFrom(_, _, _, _)
MatchAllFrom(re, s, m, ml) ==
    IF ~m.matched THEN <<>>
    ELSE <<Capture0(s, m)>> \o MatchAllFrom(re, s, ExecFrom(re, s, NextIndex(m), ml), ml)

MatchAll(re, s, ml) == MatchAllFrom(re, s, ExecFrom(re, s, 0, ml), ml)

\* str.replace(re, ''): s from `from` on without the matches, m being the
\* first match from `from` on; every match if global, the first if not
RECURSIVE RemoveFrom(_, _, _, _, _, _)
RemoveFrom(re, s, from, m, ml, global) ==
    IF ~m.matched THEN SubStr(s, from, Len(s))
    ELSE IF ~global THEN SubStr(s, from, m.index) \o SubStr(s, m.end, Len(s))
    ELSE IF NextIndex(m) > Len(s) THEN SubStr(s, from, m.index)
    ELSE SubStr(s, from, m.index) \o SubStr(s, m.end, NextIndex(m))
         \o RemoveFrom(re, s, NextIndex(m), ExecFrom(re, s, NextIndex(m), ml), ml, global)

Remove(re, s, ml, global) == RemoveFrom(re, s, 0, ExecFrom(re, s, 0, ml), ml, global)
RemoveFirst(re, s, ml) == Remove(re, s, ml, FALSE)
RemoveEvery(re, s, ml) == Remove(re, s, ml, TRUE)

(***************************************************************************)
(* The regular expressions of the source.                                  *)
(***************************************************************************)
Space == Chr(SP)
Newline == Chr(NL)
NonSpace == NoneOf(WhiteSpace)
AnySpace == OneOf(WhiteSpace)

\* "(?:[*+-]|\\d+\\.)"
LIST_BULLET == Alt(<<OneOf({"*", "+", "-"}), Cat(<<Plus(OneOf(Digits)), Chr(".")>>)>>)
\* "( *)(" + LIST_BULLET + ") "
LIST_ITEM_PREFIX == Cat(<<Grp(1, Star(Space)), Grp(2, LIST_BULLET), Space>>)
LIST_ITEM_PREFIX_R == Cat(<<Bol, LIST_ITEM_PREFIX>>)
\* LIST_ITEM_PREFIX + "[^\\n]*(?:\\n" + "(?!\\1" + LIST_BULLET + " )[^\\n]*)*", "gm"
LIST_ITEM_R ==
    Cat(<<LIST_ITEM_PREFIX, Star(NotNL),
          Star(Cat(<<Newline, NotAhead(Cat(<<Ref(1), LIST_BULLET, Space>>)),
                     Star(NotNL)>>))>>)
\* /\n{2,}$/
LIST_BLOCK_END_R == Cat(<<AtLeast(Newline, 2), Eol>>)
\* "(?:\\[[^\\]]*\\]|[^\\]]|\\](?=[^\\[]*\\]))*"
LINK_INSIDE ==
    Star(Alt(<<Cat(<<Chr("["), Star(NoneOf({"]"})), Chr("]")>>),
               NoneOf({"]"}),
               Cat(<<Chr("]"), Ahead(Cat(<<Star(NoneOf({"["})), Chr("]")>>))>>)>>))
\* "\\s*<?([^\\s]*?)>?(?:\\s+['\"]([\\s\\S]*?)['\"])?\\s*"   (groups 2 and 3 of link)
LINK_HREF ==
    Cat(<<Star(AnySpace), Opt(Chr("<")), Grp(2, LazyStar(NonSpace)), Opt(Chr(">")),
          Quant(Cat(<<Plus(AnySpace), OneOf({"'", "\""}), Grp(3, LazyStar(AnyChar)),
                      OneOf({"'", "\""})>>), 0, TRUE, 1, TRUE, {3}),
          Star(AnySpace)>>)

\* /^ *(#{1,6}) *([^\n]+?) *#* *\n+/
heading_regex ==
    Cat(<<Bol, Star(Space), Grp(1, Between(Chr("#"), 1, 6)), Star(Space),
          Grp(2, LazyPlus(NotNL)), Star(Space), Star(Chr("#")), Star(Space),
          Plus(Newline)>>)
\* /^([^\n]+)\n *(=|-){3,} *\n+/
lheading_regex ==
    Cat(<<Bol, Grp(1, Plus(NotNL)), Newline, Star(Space),
          AtLeastG(Grp(2, Alt(<<Chr("="), Chr("-")>>)), 3, {2}), Star(Space),
          Plus(Newline)>>)
\* /^( *[-*_]){3,} *\n+/
hr_regex ==
    Cat(<<Bol, AtLeastG(Grp(1, Cat(<<Star(Space), OneOf({"-", "*", "_"})>>)), 3, {1}),
          Star(Space), Plus(Newline)>>)
\* /^(?:    [^\n]+\n*)+\n\n/
codeBlock_regex ==
    Cat(<<Bol,
          Plus(Cat(<<Space, Space, Space, Space, Plus(NotNL), Star(Newline)>>)),
          Newline, Newline>>)
\* /^( *>[^\n]+(\n[^\n]+)*\n*)+/
blockQuote_regex ==
    Cat(<<Bol,
          AtLeastG(Grp(1, Cat(<<Star(Space), Chr(">"), Plus(NotNL),
                                AtLeastG(Grp(2, Cat(<<Newline, Plus(NotNL)>>)), 0, {2}),
                                Star(Newline)>>)), 1, {1, 2})>>)
\* "^( *)(" + LIST_BULLET + ") " + "[\\s\\S]+?(?:\n{2,}(?! )" +
\* "(?!\\1" + LIST_BULLET + " )\\n*" + "|\\s*$)"
list_regex ==
    Cat(<<Bol, Grp(1, Star(Space)), Grp(2, LIST_BULLET), Space, LazyPlus(AnyChar),
          Alt(<<Cat(<<AtLeast(Newline, 2), NotAhead(Space),
                      NotAhead(Cat(<<Ref(1), LIST_BULLET, Space>>)), Star(Newline)>>),
                Cat(<<Star(AnySpace), Eol>>)>>)>>)
\* /^((?:[^\n]|\n[^\n])+)\n\n+/
paragraph_regex ==
    Cat(<<Bol, Grp(1, Plus(Alt(<<NotNL, Cat(<<Newline, NotNL>>)>>))), Newline,
          Plus(Newline)>>)
\* /^\\([\\`*{}\[\]()#+\-.!_<>~|])/
escape_regex ==
    Cat(<<Bol, Chr("\\"),
          Grp(1, OneOf({"\\", BackTick, "*", "{", "}", "[", "]", "(", ")", "#", "+", "-",
                        ".", "!", "_", "<", ">", "~", "|"}))>>)
\* "^!?\\[(" + LINK_INSIDE + ")\\]\\(" + LINK_HREF + "\\)"
link_regex ==
    Cat(<<Bol, Opt(Chr("!")), Chr("["), Grp(1, LINK_INSIDE), Chr("]"), Chr("("),
          LINK_HREF, Chr(")")>>)
\* /^\*\*([\s\S]+?)\*\*(?!\*)/
strong_regex ==
    Cat(<<Bol, Chr("*"), Chr("*"), Grp(1, LazyPlus(AnyChar)), Chr("*"), Chr("*"),
          NotAhead(Chr("*"))>>)
\* /^__([\s\S]+?)__(?!_)/
u_regex ==
    Cat(<<Bol, Chr("_"), Chr("_"), Grp(1, LazyPlus(AnyChar)), Chr("_"), Chr("_"),
          NotAhead(Chr("_"))>>)
\* /^\b_((?:__|[\s\S])+?)_\b|^\*((?:\*\*|[\s\S])+?)\*(?!\*)/
em_regex ==
    Alt(<<Cat(<<Bol, WordBoundary, Chr("_"),
                Grp(1, LazyPlus(Alt(<<Cat(<<Chr("_"), Chr("_")>>), AnyChar>>))),
                Chr("_"), WordBoundary>>),
          Cat(<<Bol, Chr("*"),
                Grp(2, LazyPlus(Alt(<<Cat(<<Chr("*"), Chr("*")>>), AnyChar>>))),
                Chr("*"), NotAhead(Chr("*"))>>)>>)
\* /^~~(?=\S)([\s\S]*?\S)~~/
del_regex ==
    Cat(<<Bol, Chr("~"), Chr("~"), Ahead(NonSpace),
          Grp(1, Cat(<<LazyStar(AnyChar), NonSpace>>)), Chr("~"), Chr("~")>>)
\* /^(`+)\s*([\s\S]*?[^`])\s*\1(?!`)/
inlineCode_regex ==
    Cat(<<Bol, Grp(1, Plus(Chr(BackTick))), Star(AnySpace),
          Grp(2, Cat(<<LazyStar(AnyChar), NoneOf({BackTick})>>)), Star(AnySpace), Ref(1),
          NotAhead(Chr(BackTick))>>)
\* /^\n+/
newline_regex == Cat(<<Bol, Plus(Newline)>>)
\* /^[\s\S]+?(?=[\\<!\[_*`]|\n\n| {2,}\n|$)/
text_regex ==
    Cat(<<Bol, LazyPlus(AnyChar),
          Ahead(Alt(<<OneOf({"\\", "<", "!", "[", "_", "*", BackTick}),
                      Cat(<<Newline, Newline>>),
                      Cat(<<AtLeast(Space, 2), Newline>>),
                      Eol>>))>>)

(***************************************************************************)
(* Values.  An array is a record holding its elements, an object is a      *)
(* record of its own keys, so that _.isArray is a test on the value.       *)
(***************************************************************************)
Array(elems) == [array |-> elems]
IsArray(x) == "array" \in DOMAIN x
Push(a, x) == Array(Append(a.array, x))
EmptyObject == <<>>
\* _.extend(a, b): the keys of b are copied over those of a
Extend(a, b) ==
    [k \in (DOMAIN a) \cup (DOMAIN b) |-> IF k \in DOMAIN b THEN b[k] ELSE a[k]]

JSUndefined == [t |-> "undefined"]
\* a === b for a number a
StrictEquals(a, b) == b.t = "number" /\ b.n = a

(***************************************************************************)
(* The list rule's builder: the content each item is parsed from.          *)
(***************************************************************************)
\* a dedent that takes all the leading spaces of a line
spaceRegexAll(space) == Cat(<<Bol, Plus(Space)>>)
\* new RegExp("^ {1," + space + "}", "gm")
spaceRegex(space) == Cat(<<Bol, Between(Space, 1, space)>>)

ItemSpace(item) == Len(Capture0(item, Exec(LIST_ITEM_PREFIX_R, item, FALSE)))

ItemContent(item) ==
    RemoveFirst(LIST_ITEM_PREFIX_R,
                RemoveEvery(spaceRegex(ItemSpace(item)), item \o <<NL>>, TRUE),
                FALSE)

IsParagraph(content) == Exec(LIST_BLOCK_END_R, content, FALSE).matched

\* a last item that keeps its trailing newlines whatever came before it
LastItemContentKept(content, lastItemWasAParagraph) == content
LastItemContent(content, lastItemWasAParagraph) ==
    IF ~lastItemWasAParagraph
    THEN RemoveFirst(LIST_BLOCK_END_R, content, FALSE)
    ELSE content

\* the callback of _.map(items, ...), from item i (counted from 0) on, with the
\* value lastItemWasAParagraph has when item i is reached; content is what
\* item i is cleaned to
RECURSIVE ItemContentsFrom(_, _, _)
RECURSIVE ItemContentsAt(_, _, _, _)
ItemContentsFrom(items, i, lastItemWasAParagraph) ==
    IF i >= Len(items) THEN <<>>
    ELSE ItemContentsAt(ItemContent(items[i + 1]), items, i, lastItemWasAParagraph)

ItemContentsAt(content, items, i, lastItemWasAParagraph) ==
    IF i = Len(items) - 2
    THEN <<content>> \o ItemContentsFrom(items, i + 1, IsParagraph(content))
    ELSE IF i = Len(items) - 1
    THEN <<LastItemContent(content, lastItemWasAParagraph)>>
         \o ItemContentsFrom(items, i + 1, lastItemWasAParagraph)
    ELSE <<content>> \o ItemContentsFrom(items, i + 1, lastItemWasAParagraph)

\* a list builder whose flag starts out set
ListItemContentsLoose(capture0) ==
    ItemContentsFrom(MatchAll(LIST_ITEM_R, capture0, TRUE), 0, TRUE)
ListItems(capture0) == MatchAll(LIST_ITEM_R, capture0, TRUE)
ListItemContents(capture0) == ItemContentsFrom(ListItems(capture0), 0, FALSE)

(***************************************************************************)
(* The default rule table.  A builder is given as what it returns before   *)
(* its nested parses (attrs), the nested parses it makes in order (calls:  *)
(* the source, and whether state is passed on), and the key their results  *)
(* are stored under (into: "content" for one result, "items" for the array *)
(* of all of them, "" when there is none).                                 *)
(***************************************************************************)
defaultRules ==
    [heading |-> [regex |-> heading_regex, output |-> TRUE],
     lheading |-> [regex |-> lheading_regex, output |-> FALSE],
     hr |-> [regex |-> hr_regex, output |-> TRUE],
     codeBlock |-> [regex |-> codeBlock_regex, output |-> TRUE],
     blockQuote |-> [regex |-> blockQuote_regex, output |-> TRUE],
     list |-> [regex |-> list_regex, output |-> TRUE],
     paragraph |-> [regex |-> paragraph_regex, output |-> TRUE],
     escape |-> [regex |-> escape_regex, output |-> FALSE],
     link |-> [regex |-> link_regex, output |-> TRUE],
     strong |-> [regex |-> strong_regex, output |-> TRUE],
     u |-> [regex |-> u_regex, output |-> TRUE],
     em |-> [regex |-> em_regex, output |-> TRUE],
     del |-> [regex |-> del_regex, output |-> TRUE],
     inlineCode |-> [regex |-> inlineCode_regex, output |-> TRUE],
     newline |-> [regex |-> newline_regex, output |-> TRUE],
     text |-> [regex |-> text_regex, output |-> TRUE]]

\* Object.keys(defaultRules)
defaultPriorities ==
    <<"heading", "lheading", "hr", "codeBlock", "blockQuote", "list", "paragraph",
      "escape", "link", "strong", "u", "em", "del", "inlineCode", "newline", "text">>

NestedCall(source, withState) == [source |-> source, withState |-> withState]
Builder(attrs, calls, into) == [attrs |-> attrs, calls |-> calls, into |-> into]

\* (capture, parse, state) => ({content: parse(capture[1], state)})
parseCapture(s, m) ==
    Builder(EmptyObject, <<NestedCall(Capture(s, m, 1), TRUE)>>, "content")
ignoreCapture == Builder(EmptyObject, <<>>, "")

codeBlockContent(capture0) ==
    RemoveFirst(Cat(<<Plus(Newline), Eol>>),
                RemoveEvery(Cat(<<Bol, Space, Space, Space, Space>>), capture0, TRUE),
                FALSE)

blockQuoteContent(capture0) ==
    RemoveEvery(Cat(<<Bol, Star(Space), Chr(">"), Opt(Space)>>), capture0, TRUE)

linkParse(s, m) ==
    Builder([target |-> Capture(s, m, 2)],
            <<NestedCall(Capture(s, m, 1), FALSE)>>, "content")

\* a setext heading builder that sets no type of its own
lheadingParseUntyped(s, m) ==
    Builder([level |-> IF Capture(s, m, 2) = <<"=">> THEN 1 ELSE 2],
            <<NestedCall(Capture(s, m, 1), TRUE)>>, "content")
lheadingParse(s, m) ==
    Builder([type |-> "heading",
             level |-> IF Capture(s, m, 2) = <<"=">> THEN 1 ELSE 2],
            <<NestedCall(Capture(s, m, 1), TRUE)>>, "content")

escapeParse(s, m) ==
    Builder([type |-> "text", content |-> Capture(s, m, 1)], <<>>, "")

\* the nested parses of the list builder: parse(content, state) per item
ItemCalls(contents) == [k \in 1..Len(contents) |-> NestedCall(contents[k], TRUE)]

listParse(s, m) ==
    Builder([ordered |-> Len(Capture(s, m, 2)) > 1],
            ItemCalls(ListItemContents(Capture0(s, m))), "items")

\* a || b for strings: the empty string and undefined are falsy
Or(a, b) == IF a # <<>> THEN a ELSE b

\* rules[ruleType].parse(capture, nestedParse, state), m the capture on s
RuleParse(ruleType, s, m) ==
    CASE ruleType = "heading" ->
            Builder([level |-> Len(Capture(s, m, 1))],
                    <<NestedCall(Capture(s, m, 2), TRUE)>>, "content")
      [] ruleType = "lheading" -> lheadingParse(s, m)
      [] ruleType = "hr" -> Builder(EmptyObject, <<>>, "")
      [] ruleType = "codeBlock" ->
            Builder([content |-> codeBlockContent(Capture0(s, m))], <<>>, "")
      [] ruleType = "blockQuote" ->
            Builder(EmptyObject,
                    <<NestedCall(blockQuoteContent(Capture0(s, m)), TRUE)>>, "content")
      [] ruleType = "list" -> listParse(s, m)
      [] ruleType = "paragraph" -> parseCapture(s, m)
      [] ruleType = "escape" -> escapeParse(s, m)
      [] ruleType = "link" -> linkParse(s, m)
      [] ruleType = "strong" -> parseCapture(s, m)
      [] ruleType = "u" -> parseCapture(s, m)
      [] ruleType = "em" ->
            Builder(EmptyObject,
                    <<NestedCall(Or(Capture(s, m, 2), Capture(s, m, 1)), TRUE)>>,
                    "content")
      [] ruleType = "del" -> parseCapture(s, m)
      [] ruleType = "inlineCode" ->
            Builder([content |-> Capture(s, m, 2)], <<>>, "")
      [] ruleType = "newline" -> ignoreCapture
      [] ruleType = "text" -> Builder([content |-> Capture0(s, m)], <<>>, "")

\* what the builder returns once its nested parses have returned `done`
BuilderResult(b, done) ==
    CASE b.into = "content" -> Extend(b.attrs, [content |-> done[1]])
      [] b.into = "items" -> Extend(b.attrs, [items |-> Array(done)])
      [] OTHER -> b.attrs

\* an extend the other way round: the rule's name over the builder's type
MakeNodeRuleWins(ruleType, attrs) == Extend(attrs, [type |-> ruleType])
\* _.extend({type: ruleType}, rule.parse(capture, nestedParse, state))
MakeNode(ruleType, attrs) == Extend([type |-> ruleType], attrs)

(***************************************************************************)
(* outputFor and ruleOutput.  An output is given with the nodes outputFunc *)
(* was invoked with, in order, and with whether every node had a renderer  *)
(* (calling the missing output of a rule throws).                          *)
(***************************************************************************)
Element(tag, props, children) == [tag |-> tag, props |-> props, children |-> children]
Out(val, calls, ok) == [val |-> val, calls |-> calls, ok |-> ok]

\* a map that returns the outputs last element first
BothSwapped(head, tail) ==
    Out(tail.val \o <<head.val>>, head.calls \o tail.calls, head.ok /\ tail.ok)
\* the output of an element followed by the outputs of the elements after it
Both(head, tail) ==
    Out(<<head.val>> \o tail.val, head.calls \o tail.calls, head.ok /\ tail.ok)

RECURSIVE nestedOutput(_)
RECURSIVE MapOutput(_, _)
RECURSIVE nestedRuleOutput(_)

\* _.map(elems, nestedOutput), from element k on
MapOutput(elems, k) ==
    IF k > Len(elems) THEN Out(<<>>, <<>>, TRUE)
    ELSE Both(nestedOutput(elems[k]), MapOutput(elems, k + 1))

\* an element around the output c of the node's content
Wrap(tag, props, ast, c) == Out(Element(tag, props, c.val), <<ast>> \o c.calls, c.ok)

\* the list element around the outputs lis of the node's items
WrapItems(ast, lis) ==
    Out(Element(IF ast.ordered THEN "ol" ELSE "ul", EmptyObject,
                Array([k \in 1..Len(lis.val) |-> Element("li", EmptyObject, lis.val[k])])),
        <<ast>> \o lis.calls, lis.ok)

WrapTag(type) ==
    CASE type = "blockQuote" -> "blockquote"
      [] type = "paragraph" -> "div"
      [] type = "link" -> "a"
      [] OTHER -> type

WrapProps(ast) ==
    CASE ast.type = "paragraph" -> [className |-> "paragraph"]
      [] ast.type = "link" -> [href |-> ast.target]
      [] OTHER -> EmptyObject

\* rules[ast.type].output(ast, outputFunc)
nestedRuleOutput(ast) ==
    CASE ~defaultRules[ast.type].output -> Out(JSUndefined, <<ast>>, FALSE)
      [] ast.type = "heading" ->
            Wrap(<<"h", ast.level>>, EmptyObject, ast, nestedOutput(ast.content))
      [] ast.type = "hr" -> Out(Element("hr", EmptyObject, <<>>), <<ast>>, TRUE)
      [] ast.type = "codeBlock" ->
            Out(Element("pre", EmptyObject, Element("code", EmptyObject, ast.content)),
                <<ast>>, TRUE)
      [] ast.type = "list" -> WrapItems(ast, MapOutput(ast.items.array, 1))
      [] ast.type \in {"blockQuote", "paragraph", "link", "strong", "u", "em", "del"} ->
            Wrap(WrapTag(ast.type), WrapProps(ast), ast, nestedOutput(ast.content))
      [] ast.type = "inlineCode" ->
            Out(Element("code", EmptyObject, ast.content), <<ast>>, TRUE)
      [] ast.type = "newline" -> Out(<<SP>>, <<ast>>, TRUE)
      [] ast.type = "text" -> Out(ast.content, <<ast>>, TRUE)

\* the array _.map returns, from the outputs r of its elements
MapResult(r) == Out(Array(r.val), r.calls, r.ok)

\* outputFor(ruleOutput(defaultRules))
nestedOutput(ast) ==
    IF IsArray(ast)
    THEN MapResult(MapOutput(ast.array, 1))
    ELSE nestedRuleOutput(ast)

defaultOutput(ast) == nestedOutput(ast)

(***************************************************************************)
(* Inputs.                                                                 *)
(***************************************************************************)
MaxLen == 3
MaxItems == 2

Chars == {"a", "*", SP, NL}

RECURSIVE StringsOfLength(_)
StringsOfLength(n) ==
    IF n = 0 THEN {<<>>}
    ELSE {Append(s, c) : s \in StringsOfLength(n - 1), c \in Chars}

ShortStrings == UNION {StringsOfLength(n) : n \in 0..MaxLen}

Samples ==
    {<<"#", SP, "a", NL>>,
     <<"a", NL, "=", "=", "=", NL>>,
     <<"a", NL, "-", "-", "-", NL, "b">>,
     <<"-", "-", "-", NL>>,
     <<SP, SP, SP, SP, "a", NL, NL, NL>>,
     <<">", SP, "a", NL, ">", "b">>,
     <<"a", "b", NL, NL, "c">>,
     <<"\\", "*", "a">>,
     <<"\\", "*", "a", NL, "=", "=", "=", NL>>,
     <<"[", "a", "]", "(", "b", ")">>,
     <<"[", "*", "a", "*", "]", "(", "b", ")">>,
     <<"!", "[", "\\", "[", "]", "(", "<", "b", ">", SP, "\"", "c", "\"", ")">>,
     <<"*", "*", "a", "*", "*">>,
     <<"_", "_", "a", "_", "_">>,
     <<"_", "a", "_">>,
     <<"~", "~", "a", "~", "~">>,
     <<BackTick, "a", BackTick>>,
     <<"*", SP, "[", "a", "]", "(", "b", ")", NL, NL, "x">>,
     <<"?", "?", "?">>}

\* the text of a list: up to MaxItems item texts one after the other
ItemTexts ==
    {<<"*", SP, "a", NL>>,
     <<"*", SP, "a", NL, NL>>,
     <<"1", ".", SP, "a", NL>>,
     <<"*", SP, "a", NL, SP, "b", NL>>,
     <<"*", SP, "a", NL, SP, SP, SP, SP, "b", NL, NL>>,
     <<SP, "*", SP, "a", NL, SP, SP, SP, "b", NL>>,
     <<"*", SP, "a", NL, NL, SP, SP, "*", SP, "b", NL>>}

RECURSIVE ListTexts(_)
ListTexts(n) ==
    IF n = 0 THEN {<<>>}
    ELSE {l \o item : l \in ListTexts(n - 1), item \in ItemTexts}

Lists == UNION {ListTexts(n) : n \in 1..MaxItems}

\* the priority orders parserFor is given: the default one, and the default
\* one without its last, catch-all rule
WithoutText == SubSeq(defaultPriorities, 1, Len(defaultPriorities) - 1)
RuleLists == {defaultPriorities, WithoutText}

(***************************************************************************)
(* The state machine of one top-level call of the parse function returned  *)
(* by parserFor(defaultRules, ruleList), followed by defaultOutput on what *)
(* it returns.                                                             *)
(***************************************************************************)
VARIABLES
    ruleList,   \* the priority order the parser was made for
    input,      \* the source the top-level call is given
    stateArg,   \* the state the top-level call is given, or undefined
    stack,      \* the activations of nestedParse, innermost last
    allocated,  \* how many state objects the call tree has created
    outcome,    \* "idle", "running", "returned", "threw", "rendered", "outputThrew"
    value,      \* what the top-level call returned
    error,      \* the source the thrown error's message ends with
    made,       \* history: every node built, with its rule and builder result
    rendered,   \* what defaultOutput returned
    outCalls,   \* the nodes outputFunc was invoked with, in order
    tick        \* flips with every step the program takes

vars == <<ruleList, input, stateArg, stack, allocated, outcome, value, error, made,
          rendered, outCalls, tick>>

StateRef(n) == [t |-> "object", ref |-> n]
Truthy(v) == v.t # "undefined"
CallerState == StateRef(0)

NoBuilder == [active |-> FALSE]
ActiveBuilder(ruleType, b) ==
    [active |-> TRUE, rule |-> ruleType, b |-> b, done |-> <<>>]

\* nestedParse(source, state) up to the loop:  result = []; state = state || {}
Activation(source, state, fresh) ==
    [source |-> source,
     orig |-> source,
     result |-> Array(<<>>),
     state |-> IF Truthy(state) THEN state ELSE StateRef(fresh),
     pc |-> "loop",
     i |-> 0,
     builder |-> NoBuilder,
     log |-> <<>>]

Allocates(state) == IF Truthy(state) THEN 0 ELSE 1

\* a loop that ends at the last rule whose regex matches
RECURSIVE ScanRulesLast(_, _, _)
ScanRulesLast(list, i, source) ==
    IF i >= Len(list) THEN i
    ELSE IF ScanRulesLast(list, i + 1, source) < Len(list)
    THEN ScanRulesLast(list, i + 1, source)
    ELSE IF Exec(defaultRules[list[i + 1]].regex, source, FALSE).matched
    THEN i
    ELSE Len(list)
\* the inner while loop: the value of i it ends with
RECURSIVE ScanRules(_, _, _)
ScanRules(list, i, source) ==
    IF i < Len(list)
    THEN IF Exec(defaultRules[list[i + 1]].regex, source, FALSE).matched
         THEN i
         ELSE ScanRules(list, i + 1, source)
    ELSE i

\* rules.length, for the rules object
RulesLength == IF "length" \in DOMAIN defaultRules THEN [t |-> "object"] ELSE JSUndefined

\* a loop that cuts nothing off the source
RemainderKept(source, capture0) == source
\* source.substring(capture[0].length)
Remainder(source, capture0) == SubStr(source, Len(capture0), Len(source))

\* the argument a builder gives its nested parse for state
PassedState(call, state) == IF call.withState THEN state ELSE JSUndefined

Top == stack[Len(stack)]
SetTop(f) == [stack EXCEPT ![Len(stack)] = f]
Running == outcome = "running" /\ stack # <<>>

Init ==
    /\ \/ /\ ruleList \in RuleLists
          /\ input \in ShortStrings \cup Samples
          /\ stateArg \in {JSUndefined, CallerState}
       \/ /\ ruleList = defaultPriorities
          /\ input \in Lists
          /\ stateArg = CallerState
    /\ stack = <<>>
    /\ allocated = 0
    /\ outcome = "idle"
    /\ value = Array(<<>>)
    /\ error = <<>>
    /\ made = <<>>
    /\ rendered = Array(<<>>)
    /\ outCalls = <<>>
    /\ tick = 0

\* the caller invokes the parse function
Call ==
    /\ outcome = "idle"
    /\ stack' = <<Activation(input, stateArg, allocated + 1)>>
    /\ allocated' = allocated + Allocates(stateArg)
    /\ outcome' = "running"
    /\ UNCHANGED <<ruleList, input, stateArg, value, error, made, rendered, outCalls>>
    /\ tick' = 1 - tick

\* while (source): the inner loop runs and leaves i at the first rule whose
\* regex matches, or at ruleList.length
Scanned(f, i) ==
    [f EXCEPT !.i = i, !.pc = IF i < Len(ruleList) THEN "apply" ELSE "check"]

Scan ==
    /\ Running
    /\ Top.pc = "loop"
    /\ Top.source # <<>>
    /\ stack' = SetTop(Scanned(Top, ScanRules(ruleList, 0, Top.source)))
    /\ UNCHANGED <<ruleList, input, stateArg, allocated, outcome, value, error, made,
                   rendered, outCalls>>
    /\ tick' = 1 - tick

\* result.push(parsed), for the node made from what the builder returned
PushNode(f, ruleType, attrs) ==
    [f EXCEPT !.result = Push(@, MakeNode(ruleType, attrs)),
              !.builder = NoBuilder,
              !.pc = "check"]
Made(ruleType, attrs) ==
    [rule |-> ruleType, attrs |-> attrs, node |-> MakeNode(ruleType, attrs)]

\* the builder b of the rule, on the capture with text capture0 in the
\* activation f: the match is cut off the source, and the builder runs up to
\* its first nested parse if it makes one, and to the push of its node and
\* the break if it makes none
Cut(f, ruleType, capture0) ==
    [f EXCEPT !.source = Remainder(f.source, capture0),
              !.log = Append(@, [rule |-> ruleType, source |-> f.source,
                                 capture0 |-> capture0])]

Build(f, ruleType, b) ==
    IF b.calls = <<>>
    THEN /\ stack' = SetTop(PushNode(f, ruleType, BuilderResult(b, <<>>)))
         /\ made' = Append(made, Made(ruleType, BuilderResult(b, <<>>)))
         /\ allocated' = allocated
    ELSE /\ stack' = Append(SetTop([f EXCEPT !.builder = ActiveBuilder(ruleType, b),
                                             !.pc = "build"]),
                            Activation(b.calls[1].source,
                                       PassedState(b.calls[1], f.state),
                                       allocated + 1))
         /\ allocated' = allocated + Allocates(PassedState(b.calls[1], f.state))
         /\ made' = made

Apply(f, ruleType, capture) ==
    Build(Cut(f, ruleType, Capture0(f.source, capture)), ruleType,
          RuleParse(ruleType, f.source, capture))

\* if (capture) { ... break; }
ApplyRule ==
    /\ Running
    /\ Top.pc = "apply"
    /\ Apply(Top, ruleList[Top.i + 1],
             Exec(defaultRules[ruleList[Top.i + 1]].regex, Top.source, FALSE))
    /\ UNCHANGED <<ruleList, input, stateArg, outcome, value, error, rendered, outCalls>>
    /\ tick' = 1 - tick

\* if (i === rules.length) throw ...; then the outer loop tests source again
CheckNoRule ==
    /\ Running
    /\ Top.pc = "check"
    /\ IF StrictEquals(Top.i, RulesLength)
       THEN /\ outcome' = "threw"
            /\ error' = Top.source
            /\ stack' = <<>>
       ELSE /\ stack' = SetTop([Top EXCEPT !.pc = "loop"])
            /\ UNCHANGED <<outcome, error>>
    /\ UNCHANGED <<ruleList, input, stateArg, allocated, value, made, rendered, outCalls>>
    /\ tick' = 1 - tick

\* a nested parse returns its result to the builder that called it, in the
\* activation f above `below`; with it the builder has the results `done`,
\* and it makes its next nested parse or returns, and then its node is pushed
Resume(below, f, done) ==
    IF Len(done) < Len(f.builder.b.calls)
    THEN /\ stack' = below \o
               <<[f EXCEPT !.builder.done = done],
                 Activation(f.builder.b.calls[Len(done) + 1].source,
                            PassedState(f.builder.b.calls[Len(done) + 1], f.state),
                            allocated + 1)>>
         /\ allocated' = allocated
                + Allocates(PassedState(f.builder.b.calls[Len(done) + 1], f.state))
         /\ made' = made
    ELSE /\ stack' = below \o
               <<PushNode(f, f.builder.rule, BuilderResult(f.builder.b, done))>>
         /\ made' = Append(made, Made(f.builder.rule, BuilderResult(f.builder.b, done)))
         /\ allocated' = allocated

ReturnNested ==
    /\ Running
    /\ Len(stack) > 1
    /\ Top.pc = "loop"
    /\ Top.source = <<>>
    /\ Resume(SubSeq(stack, 1, Len(stack) - 2), stack[Len(stack) - 1],
              Append(stack[Len(stack) - 1].builder.done, Top.result))
    /\ UNCHANGED <<ruleList, input, stateArg, outcome, value, error, rendered, outCalls>>
    /\ tick' = 1 - tick

\* the top-level call returns its result
ReturnTop ==
    /\ Running
    /\ Len(stack) = 1
    /\ Top.pc = "loop"
    /\ Top.source = <<>>
    /\ outcome' = "returned"
    /\ value' = Top.result
    /\ stack' = <<>>
    /\ UNCHANGED <<ruleList, input, stateArg, allocated, error, made, rendered, outCalls>>
    /\ tick' = 1 - tick

\* the caller hands the result to defaultOutput, which returns r
Rendered(r) ==
    /\ outcome' = IF r.ok THEN "rendered" ELSE "outputThrew"
    /\ rendered' = IF r.ok THEN r.val ELSE rendered
    /\ outCalls' = r.calls

Output ==
    /\ outcome = "returned"
    /\ Rendered(defaultOutput(value))
    /\ UNCHANGED <<ruleList, input, stateArg, stack, allocated, value, error, made>>
    /\ tick' = 1 - tick

Next ==
    \/ Call
    \/ Scan
    \/ ApplyRule
    \/ CheckNoRule
    \/ ReturnNested
    \/ ReturnTop
    \/ Output

Spec == Init /\ [][Next]_vars

\* the call runs to completion: a step that can be taken is taken.  A step
\* can be taken until the call has thrown or its result has been rendered,
\* and every step flips tick
Step == outcome \in {"idle", "running", "returned"} /\ tick' = 1 - tick
FairSpec == Spec /\ WF_tick(Step)

(***************************************************************************)
(* Definitions the properties are stated with.                             *)
(***************************************************************************)
Last(seq) == seq[Len(seq)]
CatchAll == \E k \in 1..Len(ruleList) : ruleList[k] = "text"
Matches(ruleType, source) == Exec(defaultRules[ruleType].regex, source, FALSE).matched

\* the activations whose list builder has just run and made the first of its
\* nested parses
BuildingList ==
    {k \in 1..Len(stack) :
        /\ stack[k].pc = "build"
        /\ stack[k].builder.rule = "list"
        /\ stack[k].builder.done = <<>>
        /\ k = Len(stack) - 1
        /\ Top.pc = "loop"
        /\ Top.log = <<>>}
\* for such an activation: the items of the list text it matched, what items
\* are cleaned to, and the sources its builder gives the recursive parse
ItemsOf(k) == ListItems(Last(stack[k].log).capture0)
CleanedOf(items) == [n \in 1..Len(items) |-> ItemContent(items[n])]
PassedOf(k) == [n \in 1..Len(stack[k].builder.b.calls) |->
                   stack[k].builder.b.calls[n].source]

\* how many newlines s ends with
TrailingNewlines(s) ==
    CHOOSE n \in 0..Len(s) :
        /\ \A j \in 1..n : s[Len(s) - j + 1] = NL
        /\ n = Len(s) \/ s[Len(s) - n] # NL
EndsWithBreak(s) == TrailingNewlines(s) >= 2
WithoutBreak(s) ==
    IF EndsWithBreak(s) THEN SubSeq(s, 1, Len(s) - TrailingNewlines(s)) ELSE s

\* the width of <indent><bullet><space> at the head of an item: the offset
\* of the first space after the indent
LeadingSpaces(s) ==
    CHOOSE n \in 0..Len(s) : (\A j \in 1..n : s[j] = SP) /\ (n = Len(s) \/ s[n + 1] # SP)
PrefixWidth(item) ==
    CHOOSE w \in 1..Len(item) :
        /\ w > LeadingSpaces(item)
        /\ item[w] = SP
        /\ \A j \in (LeadingSpaces(item) + 1)..(w - 1) : item[j] # SP
\* where the line of t that holds offset j starts
LineStart(t, j) ==
    CHOOSE ls \in 1..j :
        /\ ls = 1 \/ t[ls - 1] = NL
        /\ \A q \in ls..(j - 1) : t[q] # NL
\* the characters of t the dedent by w takes away: the first w of the first
\* line, and of a later line the first w, as far as they are leading spaces
TakenAway(t, w, j) ==
    IF LineStart(t, j) = 1 THEN j <= w
    ELSE /\ j - LineStart(t, j) < w
         /\ \A q \in LineStart(t, j)..j : t[q] = SP
RECURSIVE Dedented(_, _, _)
Dedented(t, w, j) ==
    IF j > Len(t) THEN <<>>
    ELSE (IF TakenAway(t, w, j) THEN <<>> ELSE <<t[j]>>) \o Dedented(t, w, j + 1)
ExpectedContent(item) == Dedented(item \o <<NL>>, PrefixWidth(item), 1)
\* the type tag a rule's nodes get: its builder's, or else its own
BuilderType(ruleType) ==
    CASE ruleType = "lheading" -> "heading"
      [] ruleType = "escape" -> "text"
      [] OTHER -> ruleType

\* the consumed prefixes of an activation, one after the other
RECURSIVE Consumed(_, _)
Consumed(log, k) ==
    IF k > Len(log) THEN <<>> ELSE log[k].capture0 \o Consumed(log, k + 1)

\* every node of a tree, parents before children, in document order
RECURSIVE Preorder(_)
RECURSIVE PreorderAll(_, _)
Preorder(ast) ==
    IF IsArray(ast) THEN PreorderAll(ast.array, 1)
    ELSE <<ast>> \o
         (CASE ast.type = "list" -> PreorderAll(ast.items.array, 1)
            [] ast.type \in {"heading", "blockQuote", "paragraph", "link", "strong",
                             "u", "em", "del"} -> Preorder(ast.content)
            [] OTHER -> <<>>)
PreorderAll(elems, k) ==
    IF k > Len(elems) THEN <<>> ELSE Preorder(elems[k]) \o PreorderAll(elems, k + 1)

\* out has the shape of the tree ast: an array for an array, element by
\* element, and for a node what its type is rendered as
RECURSIVE Mirrors(_, _)
Mirrors(ast, out) ==
    IF IsArray(ast)
    THEN /\ IsArray(out)
         /\ Len(out.array) = Len(ast.array)
         /\ \A k \in 1..Len(ast.array) : Mirrors(ast.array[k], out.array[k])
    ELSE CASE ast.type = "text" -> out = ast.content
           [] ast.type = "newline" -> out = <<SP>>
           [] ast.type = "hr" -> out.tag = "hr"
           [] ast.type = "codeBlock" -> out.tag = "pre" /\ out.children.children = ast.content
           [] ast.type = "inlineCode" -> out.tag = "code" /\ out.children = ast.content
           [] ast.type = "heading" ->
                 out.tag = <<"h", ast.level>> /\ Mirrors(ast.content, out.children)
           [] ast.type = "list" ->
                 /\ out.tag = IF ast.ordered THEN "ol" ELSE "ul"
                 /\ Len(out.children.array) = Len(ast.items.array)
                 /\ \A k \in 1..Len(ast.items.array) :
                       /\ out.children.array[k].tag = "li"
                       /\ Mirrors(ast.items.array[k], out.children.array[k].children)
           [] OTHER -> out.tag = WrapTag(ast.type) /\ Mirrors(ast.content, out.children)

(***************************************************************************)
(* The properties.                                                         *)
(***************************************************************************)
Has(obj, key) == \E k \in DOMAIN obj : k = key

\* C1: when the remaining source is non-empty and the loop over the priority
\* order ends without any rule's regex having matched, the parse stops with
\* the error "could not find rule to match content: <source>" and returns no
\* partial result.
C1_NoMatchingRuleThrows ==
    [][(Running /\ Top.pc = "check" /\ Top.i = Len(ruleList))
          => (outcome' = "threw" /\ error' = Top.source /\ value' = Array(<<>>))]_vars

C3_FirstMatchingRuleInOrder ==
    /\ (Running /\ Top.pc = "apply") =>
          /\ Top.i < Len(ruleList)
          /\ Matches(ruleList[Top.i + 1], Top.source)
          /\ \A j \in 1..Top.i : ~Matches(ruleList[j], Top.source)
    /\ \A k \in 1..Len(stack) :
          /\ Consumed(stack[k].log, 1) \o stack[k].source = stack[k].orig
          /\ stack[k].pc = "build" =>
                /\ stack[k].builder.rule = ruleList[stack[k].i + 1]
                /\ Last(stack[k].log).rule = ruleList[stack[k].i + 1]
          /\ Len(stack[k].result.array)
                = Len(stack[k].log) - (IF stack[k].pc = "build" THEN 1 ELSE 0)
          /\ \A n \in 1..Len(stack[k].result.array) :
                /\ stack[k].result.array[n].type = BuilderType(stack[k].log[n].rule)
                /\ stack[k].log[n].rule = "text" =>
                      stack[k].result.array[n].content = stack[k].log[n].capture0

C3_Witness ==
    /\ Running
    /\ Top.pc = "apply"
    /\ Top.i > 0
    /\ Len(Top.log) >= 1
    /\ \E j \in (Top.i + 2)..Len(ruleList) : Matches(ruleList[j], Top.source)

\* C4: every nested parse a builder makes runs with the state object of the
\* top-level call.
C4_NestedParsesShareState ==
    \A k \in 1..Len(stack) : stack[k].state = stack[1].state

\* C5: a node has what its builder returned, and its type is the one the
\* builder returned if it returned one and the matched rule's name if not:
\* "heading" for the lheading rule, "text" for the escape rule.
C5_BuilderTypeWins ==
    \A k \in 1..Len(made) :
        /\ made[k].node.type = IF Has(made[k].attrs, "type")
                               THEN made[k].attrs.type
                               ELSE made[k].rule
        /\ made[k].node.type = BuilderType(made[k].rule)
        /\ \A key \in DOMAIN made[k].attrs : made[k].node[key] = made[k].attrs[key]

C5_Witness ==
    /\ \E k \in 1..Len(made) : made[k].rule = "lheading" /\ made[k].node.type = "heading"
    /\ \E k \in 1..Len(made) : made[k].rule = "escape" /\ made[k].node.type = "text"
    /\ \E k \in 1..Len(made) : made[k].rule = "text" /\ ~Has(made[k].attrs, "type")

\* C6: the output of a sequence of nodes is a sequence as long, its k-th
\* element the output of the k-th node, at every depth, and the output
\* function is invoked once with each node.
C6_OutputMirrorsTree ==
    outcome = "rendered" =>
        /\ Mirrors(value, rendered)
        /\ outCalls = Preorder(value)

C6_Witness ==
    /\ outcome = "rendered"
    /\ Len(value.array) >= 2
    /\ value.array[1].type # value.array[2].type
    /\ \E k \in 1..Len(outCalls) : outCalls[k].type = "list"
    /\ Len(outCalls) > Len(value.array)

\* C7: in a list of two or more items every item but the last is parsed from
\* its cleaned content, and the last from its cleaned content as it is if
\* the cleaned content of the item before it ends with two or more newlines,
\* and without its trailing run of two or more newlines if not.
C7_LooseFromSecondToLast ==
    \A k \in BuildingList :
        \A cleaned \in {CleanedOf(ItemsOf(k))} :
            \A passed \in {PassedOf(k)} :
                Len(cleaned) >= 2 =>
                    /\ Len(passed) = Len(cleaned)
                    /\ \A n \in 1..(Len(cleaned) - 1) : passed[n] = cleaned[n]
                    /\ passed[Len(cleaned)] =
                          IF EndsWithBreak(cleaned[Len(cleaned) - 1])
                          THEN cleaned[Len(cleaned)]
                          ELSE WithoutBreak(cleaned[Len(cleaned)])

C7_Witness ==
    \E k \in BuildingList :
        \E cleaned \in {CleanedOf(ItemsOf(k))} :
            /\ Len(cleaned) >= 2
            /\ EndsWithBreak(cleaned[Len(cleaned) - 1])
            /\ EndsWithBreak(PassedOf(k)[Len(cleaned)])

\* C8, as the specification states it: the only item of a one-item list
\* whose cleaned content ends with two or more newlines is parsed with them.
C8_SingleItemKeepsItsBreak ==
    \A k \in BuildingList :
        \A cleaned \in {CleanedOf(ItemsOf(k))} :
            (Len(cleaned) = 1 /\ EndsWithBreak(cleaned[1])) =>
                PassedOf(k) = <<cleaned[1]>>

\* C8: the only item of a one-item list is parsed from its cleaned content
\* without its trailing run of two or more newlines, whatever it ends with.
C8_SingleItemIsTight ==
    \A k \in BuildingList :
        \A cleaned \in {CleanedOf(ItemsOf(k))} :
            Len(cleaned) = 1 => PassedOf(k) = <<WithoutBreak(cleaned[1])>>

C8_Witness ==
    \E k \in BuildingList :
        \E cleaned \in {CleanedOf(ItemsOf(k))} :
            /\ Len(cleaned) = 1
            /\ EndsWithBreak(cleaned[1])
            /\ PassedOf(k) # <<cleaned[1]>>

\* C9: the content of an item is the item and a newline, without the prefix
\* at the head of its first line and, with w the width of that prefix,
\* without the first min(k, w) of the k leading spaces of every later line.
C9_DedentByPrefixWidth ==
    \A k \in BuildingList :
        \A items \in {ItemsOf(k)} :
            \A n \in 1..Len(items) :
                \A expected \in {ExpectedContent(items[n])} :
                    /\ ItemContent(items[n]) = expected
                    /\ \/ PassedOf(k)[n] = expected
                       \/ PassedOf(k)[n] = WithoutBreak(expected)

C9_Witness ==
    \E k \in BuildingList :
        \E items \in {ItemsOf(k)} :
            \E n \in 1..Len(items) :
                /\ \E j \in 2..Len(items[n]) :
                      /\ items[n][j - 1] = NL
                      /\ j + PrefixWidth(items[n]) <= Len(items[n])
                      /\ \A q \in j..(j + PrefixWidth(items[n])) : items[n][q] = SP
                /\ PassedOf(k)[n] = WithoutBreak(ExpectedContent(items[n]))

\* C10: every node the default parse makes, at any depth, has a type whose
\* rule has an output function, so that the default output never meets a
\* node it cannot render.
C10_EveryNodeHasOutput ==
    /\ \A k \in 1..Len(made) : defaultRules[made[k].node.type].output
    /\ outcome # "outputThrew"
    /\ outcome = "rendered" =>
          \A k \in 1..Len(outCalls) : defaultRules[outCalls[k].type].output

C10_Witness ==
    /\ outcome = "rendered"
    /\ \E k \in 1..Len(made) : made[k].rule = "lheading"
    /\ \E k \in 1..Len(outCalls) : outCalls[k].type = "heading" /\ outCalls[k].level = 1

====
